---- MODULE Spec2Model ----
(***************************************************************************)
(* A model of psg.c, the parallel genome search: main ingests FASTA lines  *)
(* into one heap buffer, splits the buffer into num_threads chunks, starts *)
(* one parallel_match thread per chunk, joins them and prints the totals.  *)
(* Offsets are byte offsets from fasta->sequence.                          *)
(***************************************************************************)
EXTENDS Integers, Sequences, FiniteSets, TLC

\* ------------------------------------------------------------------ bounds
MaxLen == 3        \* most bytes the modelled input files hold in total
MaxPat == 2        \* longest pattern given with -p
MaxThreads == 2    \* largest value given with -n
MaxLine == 2       \* longest data line of the modelled input files

\* --------------------------------------------------------------- constants
line_buffer_length == 1024

Byte == {"A", "C"}
NUL == "NUL"
\* a byte of malloc'ed memory that was never written holds any value: it
\* takes one when it is first read, and keeps it
Indeterminate == Byte \cup {NUL}
Unread == "unread"
\* the offsets from fasta->sequence on that the model keeps
Offsets == 0 .. (MaxLen + MaxPat)
Threads == 0 .. (MaxThreads - 1)

Patterns == UNION {[1..n -> Byte] : n \in 1..MaxPat}
Lines == UNION {[1..n -> Byte] : n \in 0..MaxLine}
\* values of -b: smaller than a line, room for no line, room for every line
MaxLengths == {1, line_buffer_length, line_buffer_length + MaxLen}

VARIABLES
  pattern,       \* char *pattern
  num_threads,   \* int num_threads
  max_length,    \* fasta->max_length
  cur_length,    \* fasta->cur_length
  sequence,      \* the bytes written at fasta->sequence, offset o at o + 1
  junk,          \* the heap past them, by offset: Unread or the value read
  chunk_size,    \* long chunk_size
  match_count,   \* long match_count
  trial_count,   \* long trial_count
  mutex,         \* shared_counter_mutex: <<"uninit">>, <<"free">>, <<"held",t>>
  mainpc,        \* where main is
  idx,           \* main's loop variable i
  match_ptr,     \* main's match_ptr, as an offset
  report,        \* what main printed: <<>> or <<tried, matched>>
  exit_status,   \* <<>> while running, <<"exit", n>> or <<"signal", n>>
  wpc,           \* where each parallel_match thread is
  ptr,           \* parallel_match's argument, as an offset
  cur_location,  \* parallel_match's cur_location, as an offset
  local_count,   \* parallel_match's local_count
  local_trial,   \* parallel_match's local_trial
  reg,           \* the value a thread loaded for its pending +=
  tested,        \* history: the start offsets each thread passed to strncmp
  found,         \* history: the start offsets each thread counted as a match
  read_end,      \* history: one past the highest offset each thread read
  merges         \* history: how often each thread took the mutex

mainvars == <<pattern, num_threads, max_length, cur_length, sequence,
              chunk_size, mainpc, idx, match_ptr, report, exit_status>>
workervars == <<wpc, ptr, cur_location, local_count, local_trial, reg,
                tested, found, read_end, junk, merges>>
sharedvars == <<match_count, trial_count, mutex>>
vars == <<mainvars, workervars, sharedvars>>

\* ------------------------------------------------------------- pure helpers
pattern_length == Len(pattern)

\* strncmp(sequence + o, pat, Len(pat)) from byte k on: 0 when equal
RECURSIVE strncmp(_, _, _, _)
strncmp(mem, o, pat, k) ==
  IF k = Len(pat) THEN 0
  ELSE IF mem[o + k] # pat[k + 1] THEN 1
  ELSE IF mem[o + k] = NUL THEN 0
  ELSE strncmp(mem, o, pat, k + 1)

\* how many bytes of the buffer that strncmp call reads
RECURSIVE strncmp_reads(_, _, _, _)
strncmp_reads(mem, o, pat, k) ==
  IF k = Len(pat) THEN k
  ELSE IF mem[o + k] # pat[k + 1] THEN k + 1
  ELSE IF mem[o + k] = NUL THEN k + 1
  ELSE strncmp_reads(mem, o, pat, k + 1)

\* the bytes a strncmp at offset o can see: the written ones, the junk read
\* before, and j for the junk read now for the first time
Memory(o, j) ==
  [x \in o..(o + pattern_length - 1) |->
     IF x < cur_length THEN sequence[x + 1]
     ELSE IF x \in DOMAIN j THEN j[x]
     ELSE junk[x]]

\* chunk_size = fasta->cur_length / num_threads (faulty variant: rounds up)
ChunkSizeCeil(len, n) == (len + n - 1) \div n
ChunkSize(len, n) == len \div n

\* match_ptr += chunk_size (faulty variant: chunks share a byte)
NextMatchPtrOverlap(mp) == mp + chunk_size - 1
NextMatchPtr(mp) == mp + chunk_size

\* last_location = ptr + chunk_size - 1
last_location(p) == p + chunk_size - 1

\* while (cur_location <= last_location) (faulty variant: <)
ScanContinuesStrict(cur, last) == cur < last
ScanContinues(cur, last) == cur <= last

\* pthread_mutex_lock returns only when the mutex is free (faulty variant: a
\* lock that excludes nobody)
LockAcquirableAlways == TRUE
LockAcquirable == mutex = <<"free">>

\* pthread_join returns only when the thread has returned (faulty variant: a
\* join that does not wait)
JoinReturnsAtOnce(t) == TRUE
JoinReturns(t) == wpc[t] = "done"

\* the pc after the scan loop: on to pthread_mutex_lock (faulty variant:
\* return without merging)
AfterScanLoopReturns == "done"
AfterScanLoop == "lock"

\* total += local (faulty variant: = instead of +=)
AddedOverwrite(total, local) == local
Added(total, local) == total + local

\* the headroom test of fasta_read_file (faulty variant: no room kept for
\* the next line)
BufferTooSmallNoHeadroom(len) == len > max_length
BufferTooSmall(len) == len + line_buffer_length > max_length

\* the mutex after pthread_mutex_unlock (faulty variant: it stays locked)
ReleasedNever(t) == <<"held", t>>
Released(t) == <<"free">>

\* the error numbers a pthread call returns
ThreadErrors == {11, 22}
\* check_thread_rtn: where main is after the check, exit(1) when rtn is not 0
\* (faulty variant: the error is ignored)
check_thread_rtn_ignored(rtn, next) == next
check_thread_rtn(rtn, next) == IF rtn # 0 THEN "aborted" ELSE next

\* exit() and a fatal signal end every thread of the process
Alive == mainpc \notin {"aborted", "crashed", "exited"}

\* --------------------------------------------------------------------- Init
InitFrom(patterns) ==
  /\ pattern \in patterns
  /\ num_threads \in 0..MaxThreads
  /\ max_length \in MaxLengths
  /\ cur_length = 0
  /\ sequence = <<>>
  /\ junk = [o \in Offsets |-> Unread]
  /\ chunk_size = 0
  /\ match_count = 0
  /\ trial_count = 0
  /\ mutex = <<"uninit">>
  /\ mainpc = "ingest"
  /\ idx = 0
  /\ match_ptr = 0
  /\ report = <<>>
  /\ exit_status = <<>>
  /\ wpc = [t \in Threads |-> "unborn"]
  /\ ptr = [t \in Threads |-> 0]
  /\ cur_location = [t \in Threads |-> 0]
  /\ local_count = [t \in Threads |-> 0]
  /\ local_trial = [t \in Threads |-> 0]
  /\ reg = [t \in Threads |-> 0]
  /\ tested = [t \in Threads |-> {}]
  /\ found = [t \in Threads |-> {}]
  /\ read_end = [t \in Threads |-> 0]
  /\ merges = [t \in Threads |-> 0]

Init == InitFrom(Patterns)

\* --------------------------------------------------------------------- main
\* one turn of fasta_read_file's loop: copy a line, then check the headroom
StoreLine(line) ==
  /\ cur_length + Len(line) <= MaxLen
  /\ sequence' = sequence \o line
  /\ cur_length' = cur_length + Len(line)
  /\ IF BufferTooSmall(cur_length')
     THEN mainpc' = "aborted" /\ exit_status' = <<"exit", 1>>
     ELSE UNCHANGED <<mainpc, exit_status>>

ReadDataLine ==
  /\ mainpc = "ingest"
  /\ \E line \in Lines : StoreLine(line)
  /\ UNCHANGED <<pattern, num_threads, max_length, chunk_size, idx,
                 match_ptr, report, workervars, sharedvars>>

ReadAnnotationLine ==
  /\ mainpc = "ingest"
  /\ StoreLine(<<>>)
  /\ UNCHANGED <<pattern, num_threads, max_length, chunk_size, idx,
                 match_ptr, report, workervars, sharedvars>>

OpenFails ==
  /\ mainpc = "ingest"
  /\ mainpc' = "aborted"
  /\ exit_status' = <<"exit", 1>>
  /\ UNCHANGED <<pattern, num_threads, max_length, cur_length, sequence,
                 chunk_size, idx, match_ptr, report, workervars, sharedvars>>

EndIngest ==
  /\ mainpc = "ingest"
  /\ mainpc' = "mutex_init"
  /\ UNCHANGED <<pattern, num_threads, max_length, cur_length, sequence,
                 chunk_size, idx, match_ptr, report, exit_status,
                 workervars, sharedvars>>

\* what check_thread_rtn(msge, rtn) makes of main's pc and the exit status
Checked(rtn, next) ==
  /\ mainpc' = check_thread_rtn(rtn, next)
  /\ exit_status' = IF mainpc' = "aborted" THEN <<"exit", 1>>
                    ELSE exit_status

MutexInit ==
  /\ mainpc = "mutex_init"
  /\ mutex' = <<"free">>
  /\ Checked(0, "partition")
  /\ UNCHANGED <<pattern, num_threads, max_length, cur_length, sequence,
                 chunk_size, idx, match_ptr, report, workervars,
                 match_count, trial_count>>

MutexInitFails ==
  /\ mainpc = "mutex_init"
  /\ \E rtn \in ThreadErrors : Checked(rtn, "partition")
  /\ UNCHANGED <<pattern, num_threads, max_length, cur_length, sequence,
                 chunk_size, idx, match_ptr, report, workervars, sharedvars>>

\* chunk_size = cur_length / num_threads; a zero divisor kills the process
Partition ==
  /\ mainpc = "partition"
  /\ IF num_threads = 0
     THEN /\ mainpc' = "crashed"
          /\ exit_status' = <<"signal", 8>>
          /\ UNCHANGED <<chunk_size, match_ptr, idx>>
     ELSE /\ chunk_size' = ChunkSize(cur_length, num_threads)
          /\ match_ptr' = 0
          /\ idx' = 0
          /\ mainpc' = "create"
          /\ UNCHANGED exit_status
  /\ UNCHANGED <<pattern, num_threads, max_length, cur_length, sequence,
                 report, workervars, sharedvars>>

\* the loop variable and pc after turn idx of the create loop
AfterCreate == IF idx + 1 < num_threads THEN "create" ELSE "join"
\* the pc after turn idx of the join loop
AfterJoin == IF idx + 1 < num_threads THEN "join" ELSE "report"

Create ==
  /\ mainpc = "create"
  /\ idx < num_threads
  /\ wpc' = [wpc EXCEPT ![idx] = "scan"]
  /\ ptr' = [ptr EXCEPT ![idx] = match_ptr]
  /\ cur_location' = [cur_location EXCEPT ![idx] = match_ptr]
  /\ local_count' = [local_count EXCEPT ![idx] = 0]
  /\ local_trial' = [local_trial EXCEPT ![idx] = 0]
  /\ match_ptr' = NextMatchPtr(match_ptr)
  /\ Checked(0, AfterCreate)
  /\ idx' = IF idx + 1 < num_threads THEN idx + 1 ELSE 0
  /\ UNCHANGED <<pattern, num_threads, max_length, cur_length, sequence,
                 chunk_size, report, reg, tested, found, read_end, junk,
                 merges, sharedvars>>

\* pthread_create returns an error and starts no thread
CreateFails ==
  /\ mainpc = "create"
  /\ idx < num_threads
  /\ \E rtn \in ThreadErrors : Checked(rtn, AfterCreate)
  /\ IF mainpc' = "aborted"
     THEN UNCHANGED <<idx, match_ptr>>
     ELSE /\ idx' = IF idx + 1 < num_threads THEN idx + 1 ELSE 0
          /\ match_ptr' = NextMatchPtr(match_ptr)
  /\ UNCHANGED <<pattern, num_threads, max_length, cur_length, sequence,
                 chunk_size, report, workervars, sharedvars>>

Join ==
  /\ mainpc = "join"
  /\ idx < num_threads
  /\ JoinReturns(idx)
  /\ Checked(0, AfterJoin)
  /\ idx' = idx + 1
  /\ UNCHANGED <<pattern, num_threads, max_length, cur_length, sequence,
                 chunk_size, match_ptr, report, workervars, sharedvars>>

\* pthread_join returns an error without waiting
JoinFails ==
  /\ mainpc = "join"
  /\ idx < num_threads
  /\ \E rtn \in ThreadErrors : Checked(rtn, AfterJoin)
  /\ idx' = IF mainpc' = "aborted" THEN idx ELSE idx + 1
  /\ UNCHANGED <<pattern, num_threads, max_length, cur_length, sequence,
                 chunk_size, match_ptr, report, workervars, sharedvars>>

\* the printfs of the totals, fasta_destroy and exit(0)
Report ==
  /\ mainpc = "report"
  /\ report' = <<trial_count, match_count>>
  /\ mainpc' = "exited"
  /\ exit_status' = <<"exit", 0>>
  /\ UNCHANGED <<pattern, num_threads, max_length, cur_length, sequence,
                 chunk_size, idx, match_ptr, workervars, sharedvars>>

\* ----------------------------------------------------------- parallel_match
ScanStep(t) ==
  /\ Alive
  /\ wpc[t] = "scan"
  /\ ScanContinues(cur_location[t], last_location(ptr[t]))
  /\ LET o == cur_location[t]
         fresh == {x \in o..(o + pattern_length - 1) :
                     x >= cur_length /\ junk[x] = Unread}
     IN \E j \in [fresh -> Indeterminate] :
          LET mem == Memory(o, j)
              hit == strncmp(mem, o, pattern, 0) = 0
              n_read == strncmp_reads(mem, o, pattern, 0)
          IN /\ junk' = [x \in Offsets |->
                          IF x \in fresh /\ x < o + n_read
                          THEN j[x] ELSE junk[x]]
             /\ local_trial' = [local_trial EXCEPT ![t] = @ + 1]
             /\ local_count' = [local_count EXCEPT ![t] =
                                  IF hit THEN @ + 1 ELSE @]
             /\ tested' = [tested EXCEPT ![t] = @ \cup {o}]
             /\ found' = [found EXCEPT ![t] = IF hit THEN @ \cup {o} ELSE @]
             /\ read_end' = [read_end EXCEPT ![t] =
                               IF o + n_read > @ THEN o + n_read ELSE @]
             /\ cur_location' = [cur_location EXCEPT ![t] = o + 1]
  /\ UNCHANGED <<mainvars, sharedvars, wpc, ptr, reg, merges>>

ScanEnd(t) ==
  /\ Alive
  /\ wpc[t] = "scan"
  /\ ~ScanContinues(cur_location[t], last_location(ptr[t]))
  /\ wpc' = [wpc EXCEPT ![t] = AfterScanLoop]
  /\ UNCHANGED <<mainvars, sharedvars, ptr, cur_location, local_count,
                 local_trial, reg, tested, found, read_end, junk, merges>>

Lock(t) ==
  /\ Alive
  /\ wpc[t] = "lock"
  /\ LockAcquirable
  /\ mutex' = <<"held", t>>
  /\ merges' = [merges EXCEPT ![t] = @ + 1]
  /\ wpc' = [wpc EXCEPT ![t] = "load_match"]
  /\ UNCHANGED <<mainvars, match_count, trial_count, ptr, cur_location,
                 local_count, local_trial, reg, tested, found, read_end,
                 junk>>

\* match_count += local_count is a load, an add and a store
LoadMatch(t) ==
  /\ Alive
  /\ wpc[t] = "load_match"
  /\ reg' = [reg EXCEPT ![t] = match_count]
  /\ wpc' = [wpc EXCEPT ![t] = "store_match"]
  /\ UNCHANGED <<mainvars, sharedvars, ptr, cur_location, local_count,
                 local_trial, tested, found, read_end, junk, merges>>

StoreMatch(t) ==
  /\ Alive
  /\ wpc[t] = "store_match"
  /\ match_count' = Added(reg[t], local_count[t])
  /\ wpc' = [wpc EXCEPT ![t] = "load_trial"]
  /\ UNCHANGED <<mainvars, trial_count, mutex, ptr, cur_location,
                 local_count, local_trial, reg, tested, found, read_end,
                 junk, merges>>

LoadTrial(t) ==
  /\ Alive
  /\ wpc[t] = "load_trial"
  /\ reg' = [reg EXCEPT ![t] = trial_count]
  /\ wpc' = [wpc EXCEPT ![t] = "store_trial"]
  /\ UNCHANGED <<mainvars, sharedvars, ptr, cur_location, local_count,
                 local_trial, tested, found, read_end, junk, merges>>

StoreTrial(t) ==
  /\ Alive
  /\ wpc[t] = "store_trial"
  /\ trial_count' = Added(reg[t], local_trial[t])
  /\ wpc' = [wpc EXCEPT ![t] = "unlock"]
  /\ UNCHANGED <<mainvars, match_count, mutex, ptr, cur_location,
                 local_count, local_trial, reg, tested, found, read_end,
                 junk, merges>>

Unlock(t) ==
  /\ Alive
  /\ wpc[t] = "unlock"
  /\ mutex' = Released(t)
  /\ wpc' = [wpc EXCEPT ![t] = "done"]
  /\ UNCHANGED <<mainvars, match_count, trial_count, ptr, cur_location,
                 local_count, local_trial, reg, tested, found, read_end,
                 junk, merges>>

parallel_match(t) ==
  \/ ScanStep(t)
  \/ ScanEnd(t)
  \/ Lock(t)
  \/ LoadMatch(t)
  \/ StoreMatch(t)
  \/ LoadTrial(t)
  \/ StoreTrial(t)
  \/ Unlock(t)

main ==
  \/ ReadDataLine
  \/ ReadAnnotationLine
  \/ OpenFails
  \/ EndIngest
  \/ MutexInit
  \/ MutexInitFails
  \/ Partition
  \/ Create
  \/ CreateFails
  \/ Join
  \/ JoinFails
  \/ Report

Next ==
  \/ main
  \/ \E t \in Threads : parallel_match(t)

Spec == Init /\ [][Next]_vars

\* the steps main takes when no call fails
MainProgress ==
  \/ EndIngest
  \/ MutexInit
  \/ Partition
  \/ Create
  \/ Join
  \/ Report

\* whether a run ends does not depend on which bytes the pattern holds: the
\* fair runs take one pattern of each length
LivePatterns == {[i \in 1..n |-> "A"] : n \in 1..MaxPat}
LiveInit == InitFrom(LivePatterns)

\* every thread that can run does run; nothing forces a call to fail
FairSpec ==
  /\ LiveInit
  /\ [][Next]_vars
  /\ WF_vars(MainProgress)
  /\ \A t \in Threads : WF_vars(parallel_match(t))

\* ------------------------------------------------------------ vocabulary
\* main is past the join loop
Joined == mainpc \in {"report", "exited"}
\* the pcs between pthread_mutex_lock and pthread_mutex_unlock
Merging == {"load_match", "store_match", "load_trial", "store_trial", "unlock"}

RECURSIVE SumTo(_, _)
SumTo(f, n) == IF n = 0 THEN 0 ELSE f[n - 1] + SumTo(f, n - 1)

\* the pattern occurs at offset o, all of it inside the buffer
Occurs(o) ==
  /\ o + pattern_length <= cur_length
  /\ \A k \in 0..(pattern_length - 1) : sequence[o + k + 1] = pattern[k + 1]
\* what a single scan of the whole buffer counts
ReferenceCount == Cardinality({o \in 0..(cur_length - 1) : Occurs(o)})

\* the start offsets the partitioner of the spec gives worker t
RangeOf(t) ==
  (t * (cur_length \div num_threads)) ..
     ((t + 1) * (cur_length \div num_threads) - 1)

\* ------------------------------------------------------------------ claims
\* C1: once main has joined all workers, match_count is the sum of the
\* workers' local match counts and trial_count the sum of their local attempt
\* counts, whatever the interleaving.
C1_TotalsAreLocalSums ==
  Joined => /\ match_count = SumTo(local_count, num_threads)
            /\ trial_count = SumTo(local_trial, num_threads)

\* both workers have merged a match of their own
C1_Witness ==
  /\ Joined
  /\ num_threads = 2
  /\ local_count[0] > 0
  /\ local_count[1] > 0

\* C2 (as claimed): when num_threads divides the buffer length, the match
\* count after the join is the count of a single scan of the whole buffer.
C2_MatchCountIsReference ==
  (Joined /\ cur_length % num_threads = 0) => match_count = ReferenceCount

\* C3 (as claimed): every start offset o a worker tests has
\* o + pattern_length <= cur_length, and no worker reads a byte at or past
\* cur_length.
C3_NoReadPastEnd ==
  \A t \in Threads :
    /\ \A o \in tested[t] : o + pattern_length <= cur_length
    /\ read_end[t] <= cur_length

\* C4 (as claimed): when num_threads divides the buffer length (and the
\* pattern fits in the buffer), the attempt count after the join is
\* cur_length - pattern_length + 1.
C4_AttemptsAreClamped ==
  (Joined /\ cur_length % num_threads = 0 /\ pattern_length <= cur_length)
     => trial_count = cur_length - pattern_length + 1

\* C5: worker t starts at t * (cur_length / num_threads) and tests exactly
\* the start offsets [t * chunk, (t + 1) * chunk), each once; after the join
\* every one of the first chunk * num_threads offsets has been tested by
\* exactly one worker and no other offset by anyone.
C5_PartitionIsExact ==
  /\ \A t \in Threads :
       wpc[t] # "unborn" =>
         /\ chunk_size = cur_length \div num_threads
         /\ ptr[t] = t * (cur_length \div num_threads)
         /\ tested[t] \subseteq RangeOf(t)
         /\ local_trial[t] = Cardinality(tested[t])
         /\ wpc[t] # "scan" => tested[t] = RangeOf(t)
  /\ Joined =>
       /\ UNION {tested[t] : t \in 0..(num_threads - 1)}
            = 0..((cur_length \div num_threads) * num_threads - 1)
       /\ \A o \in 0..((cur_length \div num_threads) * num_threads - 1) :
            Cardinality({t \in 0..(num_threads - 1) : o \in tested[t]}) = 1

\* two workers, each with a range of at least one offset, have been joined
C5_Witness ==
  /\ Joined
  /\ num_threads = 2
  /\ cur_length \div num_threads >= 1
  /\ tested[0] # {}
  /\ tested[1] # {}

\* C6: when num_threads does not divide the buffer length, no worker ever
\* tests one of the trailing cur_length mod num_threads offsets, and the
\* attempt count after the join is num_threads * (cur_length / num_threads).
C6_RemainderIsNeverTested ==
  (num_threads > 0 /\ cur_length % num_threads # 0) =>
     /\ \A t \in Threads : \A o \in tested[t] :
          o < cur_length - (cur_length % num_threads)
     /\ Joined =>
          trial_count = num_threads * (cur_length \div num_threads)

\* a buffer of odd length was scanned by two workers with non-empty ranges
C6_Witness ==
  /\ Joined
  /\ num_threads = 2
  /\ cur_length % num_threads # 0
  /\ trial_count > 0

\* C7: an occurrence that starts at the last offset of worker t's range and
\* runs on into the next worker's range is in the match count exactly once:
\* worker t counted it and no other worker did.
C7_BoundaryMatchCountedOnce ==
  Joined =>
    /\ match_count = SumTo([t \in Threads |-> Cardinality(found[t])],
                           num_threads)
    /\ \A t \in 0..(num_threads - 2) :
         LET o == (t + 1) * (cur_length \div num_threads) - 1
         IN (/\ cur_length \div num_threads >= 1
             /\ pattern_length >= 2
             /\ Occurs(o))
            => /\ o \in found[t]
               /\ \A u \in Threads : u # t => o \notin found[u]

\* worker 0 counted an occurrence that starts at the last offset of its range
C7_Witness ==
  /\ Joined
  /\ num_threads = 2
  /\ pattern_length >= 2
  /\ cur_length \div num_threads >= 1
  /\ Occurs(cur_length \div num_threads - 1)
  /\ (cur_length \div num_threads - 1) \in found[0]
  /\ match_count >= 1

\* C8 (as claimed): when the pattern is longer than the buffer, the run ends
\* with zero attempts and zero matches and no worker has read a byte at or
\* past cur_length.
C8_LongPatternScansNothing ==
  (Joined /\ pattern_length > cur_length) =>
     /\ trial_count = 0
     /\ match_count = 0
     /\ \A t \in Threads : read_end[t] <= cur_length

\* C9: the counters change only in a step of the worker that holds the mutex;
\* a worker is between lock and unlock exactly when it holds the mutex, so at
\* most one is and none holds it while scanning.
C9_HolderOf(t) == mutex = <<"held", t>>
C9_StateInv ==
  /\ \A t \in Threads : (wpc[t] \in Merging) <=> C9_HolderOf(t)
  /\ \A t \in Threads : wpc[t] \in {"unborn", "scan", "lock", "done"}
                           => ~C9_HolderOf(t)
  /\ Cardinality({t \in Threads : wpc[t] \in Merging}) <= 1
C9_WriteByHolder ==
  (match_count' # match_count \/ trial_count' # trial_count) =>
     \E t \in Threads : /\ C9_HolderOf(t)
                        /\ wpc[t] \in {"store_match", "store_trial"}
                        /\ wpc'[t] # wpc[t]
C9_MutexDiscipline == [](C9_StateInv) /\ [][C9_WriteByHolder]_vars

\* one worker is in the critical section while the other waits for the lock
C9_Witness ==
  \E t, u \in Threads :
    /\ t # u
    /\ C9_HolderOf(t)
    /\ wpc[t] = "store_trial"
    /\ wpc[u] = "lock"
    /\ local_trial[t] > 0
    /\ local_trial[u] > 0

\* C10: a worker exists only after ingestion has ended and chunk_size has
\* been computed, the buffer and chunk_size never change from then on, and
\* main reads the totals only when every worker has merged and been joined.
C10_StartedAfterIngest ==
  \A t \in Threads :
    wpc[t] # "unborn" =>
      /\ mainpc \notin {"ingest", "mutex_init", "partition"}
      /\ chunk_size = cur_length \div num_threads
C10_ReadAfterJoin ==
  (Joined \/ report # <<>>) =>
     \A t \in 0..(num_threads - 1) : wpc[t] = "done" /\ idx > t
C10_Frozen ==
  /\ mainpc # "ingest" => (cur_length' = cur_length /\ sequence' = sequence)
  /\ mainpc \notin {"ingest", "mutex_init", "partition"}
       => chunk_size' = chunk_size
C10_PhaseOrder ==
  /\ [](C10_StartedAfterIngest /\ C10_ReadAfterJoin)
  /\ [][C10_Frozen]_vars

\* a run with two workers and a buffer of two bytes or more has reported
C10_Witness ==
  /\ mainpc = "exited"
  /\ report # <<>>
  /\ num_threads = 2
  /\ cur_length >= 2

\* C11: after the join the totals are a function of what the run was given:
\* the attempts of num_threads, cur_length alone, the matches of the pattern
\* and the heap (the buffer and the bytes behind it); no interleaving and no
\* merge order gives another pair, and the report prints that pair.
C11_HeapByte(x) == IF x < cur_length THEN sequence[x + 1] ELSE junk[x]
C11_HeapMatches(o) ==
  \A k \in 0..(pattern_length - 1) : C11_HeapByte(o + k) = pattern[k + 1]
C11_Attempts == num_threads * (cur_length \div num_threads)
C11_Matches ==
  Cardinality({o \in 0..(C11_Attempts - 1) : C11_HeapMatches(o)})
C11_TotalsDependOnInputOnly ==
  Joined =>
    /\ trial_count = C11_Attempts
    /\ match_count = C11_Matches
    /\ report # <<>> => report = <<C11_Attempts, C11_Matches>>

\* a run of two workers that both found a match has printed its report
C11_Witness ==
  /\ mainpc = "exited"
  /\ num_threads = 2
  /\ local_count[0] > 0
  /\ local_count[1] > 0
  /\ report = <<trial_count, match_count>>
  /\ match_count >= 2

\* C12: a failing pthread_mutex_init, pthread_create or pthread_join takes
\* the run to Aborted with exit status 1; an aborted run has printed nothing
\* and never does; a report exists only when every worker was created, has
\* merged once and was joined, and it shows the complete totals.
C12_AbortedIsSilent ==
  mainpc = "aborted" => (report = <<>> /\ exit_status = <<"exit", 1>>)
C12_ReportIsComplete ==
  report # <<>> =>
    /\ exit_status = <<"exit", 0>>
    /\ idx = num_threads
    /\ \A t \in 0..(num_threads - 1) : wpc[t] = "done" /\ merges[t] = 1
    /\ report = <<SumTo(local_trial, num_threads),
                  SumTo(local_count, num_threads)>>
C12_FailureAborts ==
  (MutexInitFails \/ CreateFails \/ JoinFails) =>
     (mainpc' = "aborted" /\ report' = <<>>)
C12_AbortIsFinal ==
  mainpc = "aborted" => (mainpc' = "aborted" /\ report' = report)
C12_NoPartialReport ==
  /\ [](C12_AbortedIsSilent /\ C12_ReportIsComplete)
  /\ [][C12_FailureAborts /\ C12_AbortIsFinal]_vars

\* a join failed while one worker had merged and another had not
C12_Witness ==
  /\ mainpc = "aborted"
  /\ report = <<>>
  /\ \E t, u \in Threads :
       /\ wpc[t] = "done"
       /\ local_trial[t] > 0
       /\ wpc[u] \in {"scan", "lock"} \cup Merging

\* C13 (as claimed): once ingestion and partitioning are over, a worker count
\* of zero or one greater than the buffer length has taken the run to
\* Aborted with exit status 1, no worker was launched and nothing was
\* reported.
C13_BadWorkerCountIsRejected ==
  (/\ mainpc \notin {"ingest", "mutex_init", "partition"}
   /\ (num_threads = 0 \/ num_threads > cur_length))
    => /\ mainpc = "aborted"
       /\ exit_status = <<"exit", 1>>
       /\ \A t \in Threads : wpc[t] = "unborn"
       /\ report = <<>>

\* C14 (as claimed): cur_length never exceeds max_length, whatever the -b
\* value and the lines read: a line that does not fit is not stored.
C14_LengthWithinCapacity == cur_length <= max_length

\* C16: a worker takes the mutex at most once; it is between lock and unlock,
\* or has returned, only after it has tested its whole range, and then it
\* has taken the mutex exactly once; before that it never has.  A worker that
\* has returned stays so.
C16_OnceAfterScan ==
  \A t \in Threads :
    /\ merges[t] <= 1
    /\ wpc[t] \in {"unborn", "scan", "lock"} => merges[t] = 0
    /\ wpc[t] \in Merging \cup {"done"} =>
         /\ merges[t] = 1
         /\ tested[t] = RangeOf(t)
         /\ cur_location[t] = ptr[t] + chunk_size
C16_DoneIsFinal ==
  \A t \in Threads :
    wpc[t] = "done" => (wpc'[t] = "done" /\ merges'[t] = merges[t])
C16_MergedExactlyOnce == [](C16_OnceAfterScan) /\ [][C16_DoneIsFinal]_vars

\* two workers that each tested something have returned, each merged once
C16_Witness ==
  /\ num_threads = 2
  /\ \A t \in {0, 1} : wpc[t] = "done" /\ merges[t] = 1 /\ local_trial[t] > 0
  /\ mainpc = "join"

\* C17: each counter is, in every state, the sum of the local counts of the
\* workers that have stored into it; when nobody holds the mutex both are the
\* sums over the workers that have finished their merge; both are zero until
\* a worker exists and neither ever decreases.
C17_SumWhere(f, pcs) ==
  SumTo([t \in Threads |-> IF wpc[t] \in pcs THEN f[t] ELSE 0], MaxThreads)
C17_Exact ==
  /\ match_count =
       C17_SumWhere(local_count,
                    {"load_trial", "store_trial", "unlock", "done"})
  /\ trial_count = C17_SumWhere(local_trial, {"unlock", "done"})
  /\ (\A t \in Threads : mutex # <<"held", t>>) =>
       /\ match_count = C17_SumWhere(local_count, {"done"})
       /\ trial_count = C17_SumWhere(local_trial, {"done"})
  /\ (\A t \in Threads : wpc[t] = "unborn") =>
       (match_count = 0 /\ trial_count = 0)
C17_Monotone ==
  /\ match_count' >= match_count
  /\ trial_count' >= trial_count
C18_HeadroomKept ==
  /\ (cur_length > 0 /\ (mainpc # "aborted" \/ mutex # <<"uninit">>)) =>
       cur_length + line_buffer_length <= max_length
  /\ \A t \in Threads :
       /\ read_end[t] <= max_length
       /\ read_end[t] <= cur_length + pattern_length - 1 \/ read_end[t] = 0

\* a worker has read a byte behind the end of a non-empty buffer
C18_Witness ==
  /\ cur_length > 0
  /\ \E t \in Threads : read_end[t] > cur_length

\* the scan phase has started: main has created a worker
C15_ScanStarted == num_threads >= 1 /\ wpc[0] # "unborn"

\* C15 (as claimed): under fair scheduling every run that starts the scan
\* phase ends in Reported.
C15_AlwaysReported == C15_ScanStarted ~> (mainpc = "exited")

\* C15 (amended): under fair scheduling every run that starts the scan phase
\* ends, in Reported or in Aborted; it is aborted only by a failing
\* pthread_create or pthread_join; a run that ends in Reported has printed
\* its report and every worker has finished its scan, merged and returned.
C15_OnlyFailureAborts ==
  (C15_ScanStarted /\ mainpc # "aborted" /\ mainpc' = "aborted")
     => (CreateFails \/ JoinFails)
C15_TerminatesUnlessCallFails ==
  /\ C15_ScanStarted ~> (mainpc = "exited" \/ mainpc = "aborted")
  /\ [](mainpc = "exited" =>
          (report # <<>> /\ \A t \in 0..(num_threads - 1) : wpc[t] = "done"))
  /\ [][C15_OnlyFailureAborts]_vars

\* a run of two workers with work to do has reported and exited
C15_Witness ==
  /\ mainpc = "exited"
  /\ num_threads = 2
  /\ local_trial[0] > 0
  /\ local_trial[1] > 0
  /\ exit_status = <<"exit", 0>>

====
